---- MODULE Spec2Model ----
(***************************************************************************)
(* The interactive session layer of the wallet CLI: src/src/main.rs (run,  *)
(* the top-level commands, the event bridge) and src/src/account.rs (the   *)
(* account prompt and the account commands).                               *)
(*                                                                         *)
(* Text is a sequence of atoms.  An atom is a keyword ("transfer",         *)
(* "--amount"), a blank (" ", "\t") or one character of a value ("0", "a").*)
(* A line is split into tokens as the code splits it; a token is again a   *)
(* sequence of atoms, so a value such as 10 is the token <<"1", "0">>.     *)
(***************************************************************************)
EXTENDS Integers, Sequences, FiniteSets, TLC

\* ------------------------------------------------------------------ bounds
MaxAttempts == 2    \* rejected passwords per run
MaxLines == 2       \* lines read at account prompts per run
MaxPicks == 2       \* accounts chosen in the account picker per run
MaxEvents == 2      \* events the engine delivers per run

\* ------------------------------------------------------------- text helpers
None == <<"None">>

Rep(c, n) == [i \in 1..n |-> c]

RECURSIVE Join(_)
Join(words) ==      \* the words of a line, one blank between two words
    IF Len(words) = 0 THEN <<>>
    ELSE IF Len(words) = 1 THEN words[1]
    ELSE words[1] \o <<" ">> \o Join(Tail(words))

RECURSIVE SplitFrom(_, _, _, _)
SplitFrom(s, sep, start, i) ==  \* the pieces of s from `start` on, scanning at i
    IF i > Len(s) THEN <<SubSeq(s, start, Len(s))>>
    ELSE IF s[i] = sep THEN <<SubSeq(s, start, i - 1)>> \o SplitFrom(s, sep, i + 1, i + 1)
    ELSE SplitFrom(s, sep, start, i + 1)

\* str::split(sep): the pieces between separators, empty ones kept
split(s, sep) == SplitFrom(s, sep, 1, 1)

Digits == {"0", "1", "2", "3", "4", "5", "6", "7", "8", "9"}

DigitVal(c) ==
    CASE c = "0" -> 0 [] c = "1" -> 1 [] c = "2" -> 2 [] c = "3" -> 3 [] c = "4" -> 4
      [] c = "5" -> 5 [] c = "6" -> 6 [] c = "7" -> 7 [] c = "8" -> 8 [] c = "9" -> 9

\* u64::MAX = 18446744073709551615, digit by digit
U64MaxDigits ==
    <<"1", "8", "4", "4", "6", "7", "4", "4", "0", "7",
      "3", "7", "0", "9", "5", "5", "1", "6", "1", "5">>

RECURSIVE StripZeros(_)
StripZeros(ds) ==
    IF Len(ds) > 0 /\ ds[1] = "0" THEN StripZeros(Tail(ds)) ELSE ds

RECURSIVE DigitsLeq(_, _)
DigitsLeq(a, b) ==  \* a <= b for digit sequences of the same length
    IF Len(a) = 0 THEN TRUE
    ELSE IF DigitVal(a[1]) < DigitVal(b[1]) THEN TRUE
    ELSE IF DigitVal(a[1]) > DigitVal(b[1]) THEN FALSE
    ELSE DigitsLeq(Tail(a), Tail(b))

\* str::parse::<u64>() (and ::<usize>() on a 64-bit target): an optional "+",
\* then one or more decimal digits, the value at most u64::MAX.  The result
\* is None on error, else the digits of the value without leading zeros
\* (<<>> is the value 0).
ParseU64(tok) ==
    LET body == IF Len(tok) > 0 /\ tok[1] = "+" THEN Tail(tok) ELSE tok
        value == StripZeros(body)
    IN IF Len(body) = 0 THEN None
       ELSE IF \E i \in 1..Len(body) : body[i] \notin Digits THEN None
       ELSE IF Len(value) > Len(U64MaxDigits) THEN None
       ELSE IF Len(value) = Len(U64MaxDigits) /\ ~DigitsLeq(value, U64MaxDigits) THEN None
       ELSE value

HexChars == Digits \cup {"a", "b", "c", "d", "e", "f", "A", "B", "C", "D", "E", "F"}

MessageIdLen == 64

\* MessageId::from_str: Ok exactly for 64 hexadecimal characters
MessageIdFromStr(tok) ==
    Len(tok) = MessageIdLen /\ \A i \in 1..Len(tok) : tok[i] \in HexChars

\* iota_wallet::address::parse: Ok exactly for the well-formed bech32 addresses
ValidBech32 == {<<"atoi1qvalid">>}
AddressParse(tok) == tok \in ValidBech32

\* ------------------------------------------------------ the account grammar
\* The grammar of the account prompt (account-cli.yml): a subcommand followed
\* by "--flag value" pairs.
AccountSubcommands ==
    {"list-messages", "list-addresses", "sync", "address", "balance", "transfer",
     "promote", "retry", "reattach", "set-node", "set-alias", "exit"}

FlagNames == {"id", "type", "gap", "address", "amount", "node", "alias"}

FlagToken(n) ==
    CASE n = "id" -> <<"--id">> [] n = "type" -> <<"--type">> [] n = "gap" -> <<"--gap">>
      [] n = "address" -> <<"--address">> [] n = "amount" -> <<"--amount">>
      [] n = "node" -> <<"--node">> [] n = "alias" -> <<"--alias">>
      [] n = "path" -> <<"--path">> [] n = "mnemonic" -> <<"--mnemonic">>

AllowedFlags(sub) ==
    CASE sub = "list-messages" -> {"id", "type"}
      [] sub = "sync" -> {"gap"}
      [] sub = "transfer" -> {"address", "amount"}
      [] sub \in {"promote", "retry", "reattach"} -> {"id"}
      [] sub = "set-node" -> {"node"}
      [] sub = "set-alias" -> {"alias"}
      [] OTHER -> {}

RequiredFlags(sub) ==
    IF sub \in {"list-messages", "sync"} THEN {} ELSE AllowedFlags(sub)

MessageTypes == {<<"received">>, <<"sent">>, <<"failed">>, <<"unconfirmed">>, <<"value">>}

NoMatches == [ok |-> FALSE, sub |-> "", args |-> <<>>]

\* a token the parser reads as a flag, not as a value
FlagLike(tok) == Len(tok) > 0 /\ (tok[1] = "-" \/ \E n \in FlagNames \cup {"path", "mnemonic"} : tok = FlagToken(n))

RECURSIVE ParseFlags(_, _)
ParseFlags(toks, allowed) ==    \* [ok, args]: the values of the flags, by name
    IF Len(toks) = 0 THEN [ok |-> TRUE, args |-> <<>>]
    ELSE IF Len(toks) = 1 THEN [ok |-> FALSE, args |-> <<>>]
    ELSE LET rest == ParseFlags(Tail(Tail(toks)), allowed)
             names == {n \in allowed : toks[1] = FlagToken(n)}
         IN IF names = {} \/ Len(toks[2]) = 0 \/ FlagLike(toks[2]) \/ ~rest.ok
            THEN [ok |-> FALSE, args |-> <<>>]
            ELSE LET n == CHOOSE x \in names : TRUE
                 IN IF n \in DOMAIN rest.args THEN [ok |-> FALSE, args |-> <<>>]
                    ELSE [ok |-> TRUE, args |-> (n :> toks[2]) @@ rest.args]

\* App::try_get_matches_from under NoBinaryName: [ok, sub, args]
try_get_matches_from(tokens) ==
    IF Len(tokens) = 0 \/ Len(tokens[1]) # 1 THEN NoMatches
    ELSE LET sub == tokens[1][1]
         IN IF sub \notin AccountSubcommands THEN NoMatches
            ELSE LET fl == ParseFlags(Tail(tokens), AllowedFlags(sub))
                 IN IF ~fl.ok \/ ~(RequiredFlags(sub) \subseteq DOMAIN fl.args) THEN NoMatches
                    ELSE IF "type" \in DOMAIN fl.args /\ fl.args["type"] \notin MessageTypes
                    THEN NoMatches
                    ELSE [ok |-> TRUE, sub |-> sub, args |-> fl.args]

value_of(m, name) == IF name \in DOMAIN m.args THEN m.args[name] ELSE None

\* ------------------------------------------------------ the account commands
\* A command handler maps the state of one dispatch, [err, out, calls, alias,
\* ran], to the state after it: err is "" while no handler has failed, out the
\* lines printed, calls the engine operations invoked, alias the account's
\* alias, ran the number of handlers account_commands has called.
\* eng is what the engine answers: eng.ok (the fallible call succeeds) and
\* eng.some (the looked-up message exists, the listing is not empty).
Ok(st) == st.err = ""
Fail(st, e) == [st EXCEPT !.err = e]
Emit(st, l) == [st EXCEPT !.out = Append(@, <<l>>)]     \* println!: a line is a tuple of its parts
Call(st, c) == [st EXCEPT !.calls = Append(@, c)]

EngineError == "engine error"
BadMessageId == "Message id must be a hex string of length 64"

list_messages_command(st, m, eng) ==
    IF m.sub # "list-messages" THEN st
    ELSE IF value_of(m, "id") # None
    THEN IF MessageIdFromStr(value_of(m, "id"))
         THEN Emit(Call(st, "get_message"), IF eng.some THEN "MESSAGE" ELSE "Message not found")
         ELSE Emit(st, BadMessageId)
    ELSE LET c == Call(st, "list_messages")
         IN IF ~eng.ok THEN Fail(c, EngineError)
            ELSE Emit(c, IF eng.some THEN "MESSAGE" ELSE "No messages found")

list_addresses_command(st, m, eng) ==
    IF m.sub # "list-addresses" THEN st
    ELSE Emit(Call(st, "addresses"), IF eng.some THEN "ADDRESS" ELSE "No addresses found")

sync_account_command(st, m, eng) ==
    IF m.sub # "sync" THEN st
    ELSE LET s1 == Call(st, "sync")
             gap == value_of(m, "gap")
         IN IF gap # None /\ ParseU64(gap) = None THEN Fail(s1, "Gap limit must be a number")
            ELSE LET s2 == IF gap # None THEN Emit(s1, "Syncing with gap limit") ELSE s1
                     s3 == Call(s2, "execute")
                 IN IF ~eng.ok THEN Fail(s3, EngineError)
                    ELSE IF eng.some THEN Emit(Emit(s3, "ADDRESS"), "MESSAGE") ELSE s3

generate_address_command(st, m, eng) ==
    IF m.sub # "address" THEN st
    ELSE LET c == Call(st, "generate_address")
         IN IF ~eng.ok THEN Fail(c, EngineError) ELSE Emit(c, "ADDRESS")

\* balance_command without the test of its subcommand
balance_command_always(st, m, eng) ==
    LET c == Call(st, "balance")
    IN IF ~eng.ok THEN Fail(c, EngineError) ELSE Emit(c, "BALANCE")

balance_command(st, m, eng) ==
    IF m.sub # "balance" THEN st
    ELSE LET c == Call(st, "balance")
         IN IF ~eng.ok THEN Fail(c, EngineError) ELSE Emit(c, "BALANCE")

\* transfer_command without the NonZeroU64 check
transfer_command_nozero(st, m, eng) ==
    IF m.sub # "transfer" THEN st
    ELSE IF ~AddressParse(value_of(m, "address")) THEN Fail(st, "Address must be a bech32 string")
    ELSE IF ParseU64(value_of(m, "amount")) = None THEN Fail(st, "Amount must be a number")
    ELSE LET c == Call(st, "transfer")
         IN IF ~eng.ok THEN Fail(c, EngineError) ELSE Emit(c, "MESSAGE")

transfer_command(st, m, eng) ==
    IF m.sub # "transfer" THEN st
    ELSE IF ~AddressParse(value_of(m, "address")) THEN Fail(st, "Address must be a bech32 string")
    ELSE IF ParseU64(value_of(m, "amount")) = None THEN Fail(st, "Amount must be a number")
    ELSE IF ParseU64(value_of(m, "amount")) = <<>> THEN Fail(st, "amount can't be zero")
    ELSE LET c == Call(st, "transfer")
         IN IF ~eng.ok THEN Fail(c, EngineError) ELSE Emit(c, "MESSAGE")

\* replay_message handing every id to the engine
replay_message_unchecked(st, action, message_id, eng) ==
    LET c == Call(st, action)
    IN IF ~eng.ok THEN Fail(c, EngineError) ELSE Emit(c, "MESSAGE")

replay_message(st, action, message_id, eng) ==
    IF MessageIdFromStr(message_id)
    THEN LET c == Call(st, action)
         IN IF ~eng.ok THEN Fail(c, EngineError) ELSE Emit(c, "MESSAGE")
    ELSE Emit(st, BadMessageId)

promote_message_command(st, m, eng) ==
    IF m.sub # "promote" THEN st ELSE replay_message(st, "promote", value_of(m, "id"), eng)

retry_message_command(st, m, eng) ==
    IF m.sub # "retry" THEN st ELSE replay_message(st, "retry", value_of(m, "id"), eng)

reattach_message_command(st, m, eng) ==
    IF m.sub # "reattach" THEN st ELSE replay_message(st, "reattach", value_of(m, "id"), eng)

\* ClientOptionsBuilder::with_nodes: Ok exactly for the well-formed URLs
ValidUrls == {<<"http://node">>}

set_node_command(st, m, eng) ==
    IF m.sub # "set-node" THEN st
    ELSE IF value_of(m, "node") \notin ValidUrls THEN Fail(st, "invalid url")
    ELSE LET c == Call(st, "set_client_options")
         IN IF ~eng.ok THEN Fail(c, EngineError) ELSE c

set_alias_command(st, m, eng) ==
    IF m.sub # "set-alias" THEN st
    ELSE LET c == Call(st, "set_alias")
         IN IF ~eng.ok THEN Fail(c, EngineError) ELSE [c EXCEPT !.alias = value_of(m, "alias")]

NumHandlers == 11

Handler(i, st, m, eng) ==
    CASE i = 1 -> list_messages_command(st, m, eng)
      [] i = 2 -> list_addresses_command(st, m, eng)
      [] i = 3 -> sync_account_command(st, m, eng)
      [] i = 4 -> generate_address_command(st, m, eng)
      [] i = 5 -> balance_command(st, m, eng)
      [] i = 6 -> transfer_command(st, m, eng)
      [] i = 7 -> promote_message_command(st, m, eng)
      [] i = 8 -> retry_message_command(st, m, eng)
      [] i = 9 -> reattach_message_command(st, m, eng)
      [] i = 10 -> set_node_command(st, m, eng)
      [] i = 11 -> set_alias_command(st, m, eng)

RECURSIVE RunHandlers(_, _, _, _)
RunHandlers(i, st, m, eng) ==   \* handlers i..11 in order, `?` stops at the first error
    IF i > NumHandlers \/ ~Ok(st) THEN st
    ELSE RunHandlers(i + 1, [Handler(i, st, m, eng) EXCEPT !.ran = @ + 1], m, eng)

account_commands(alias, m, eng) ==
    RunHandlers(1, [err |-> "", out |-> <<>>, calls |-> <<>>, alias |-> alias, ran |-> 0],
                m, eng)

print_error(e) == <<"ERROR: ", e>>

ParserError == "error: the account grammar rejects the line"

\* account_prompt_internal returning true after a parser error
account_prompt_internal_quits(command, alias, eng) ==
    LET quiet == [exit |-> FALSE, out |-> <<>>, calls |-> <<>>, alias |-> alias,
                  parsed |-> NoMatches, dispatched |-> FALSE, err |-> "", ran |-> 0]
    IN IF command = <<"h">> THEN [quiet EXCEPT !.out = <<<<"HELP">>>>]
       ELSE IF command = <<"clear">> THEN quiet
       ELSE LET m == try_get_matches_from(split(command, " "))
            IN IF ~m.ok THEN [quiet EXCEPT !.out = <<<<ParserError>>>>, !.exit = TRUE]
               ELSE IF m.sub = "exit" THEN [quiet EXCEPT !.exit = TRUE, !.parsed = m]
               ELSE LET r == account_commands(alias, m, eng)
                    IN [exit |-> FALSE,
                        out |-> IF Ok(r) THEN r.out ELSE r.out \o <<print_error(r.err)>>,
                        calls |-> r.calls, alias |-> r.alias, parsed |-> m,
                        dispatched |-> TRUE, err |-> r.err, ran |-> r.ran]

\* account_prompt_internal ending the account's session on `exit`
account_prompt_internal_closes(command, alias, eng) ==
    LET quiet == [exit |-> FALSE, out |-> <<>>, calls |-> <<>>, alias |-> alias,
                  parsed |-> NoMatches, dispatched |-> FALSE, err |-> "", ran |-> 0]
    IN IF command = <<"h">> THEN [quiet EXCEPT !.out = <<<<"HELP">>>>]
       ELSE IF command = <<"clear">> THEN quiet
       ELSE LET m == try_get_matches_from(split(command, " "))
            IN IF ~m.ok THEN [quiet EXCEPT !.out = <<<<ParserError>>>>]
               ELSE IF m.sub = "exit"
               THEN [quiet EXCEPT !.exit = TRUE, !.parsed = m, !.calls = <<"set_alias">>,
                                  !.alias = <<"Account">>]
               ELSE LET r == account_commands(alias, m, eng)
                    IN [exit |-> FALSE,
                        out |-> IF Ok(r) THEN r.out ELSE r.out \o <<print_error(r.err)>>,
                        calls |-> r.calls, alias |-> r.alias, parsed |-> m,
                        dispatched |-> TRUE, err |-> r.err, ran |-> r.ran]

\* One iteration of the account prompt on the line read:
\* [exit, out, calls, alias, parsed, dispatched, err, ran]
account_prompt_internal(command, alias, eng) ==
    LET quiet == [exit |-> FALSE, out |-> <<>>, calls |-> <<>>, alias |-> alias,
                  parsed |-> NoMatches, dispatched |-> FALSE, err |-> "", ran |-> 0]
    IN IF command = <<"h">> THEN [quiet EXCEPT !.out = <<<<"HELP">>>>]
       ELSE IF command = <<"clear">> THEN quiet
       ELSE LET m == try_get_matches_from(split(command, " "))
            IN IF ~m.ok THEN [quiet EXCEPT !.out = <<<<ParserError>>>>]
               ELSE IF m.sub = "exit" THEN [quiet EXCEPT !.exit = TRUE, !.parsed = m]
               ELSE LET r == account_commands(alias, m, eng)
                    IN [exit |-> FALSE,
                        out |-> IF Ok(r) THEN r.out ELSE r.out \o <<print_error(r.err)>>,
                        calls |-> r.calls, alias |-> r.alias, parsed |-> m,
                        dispatched |-> TRUE, err |-> r.err, ran |-> r.ran]

\* ------------------------------------------------------ the top-level grammar
\* The grammar of the process arguments (cli.yml): at most one subcommand,
\* followed by "--flag value" pairs.
TopSubcommands == {"mnemonic", "new", "account", "delete", "sync", "backup", "import"}

TopAllowedFlags(sub) ==
    CASE sub = "mnemonic" -> {"mnemonic"}
      [] sub = "new" -> {"alias", "node"}
      [] sub \in {"account", "delete"} -> {"alias"}
      [] sub \in {"backup", "import"} -> {"path"}
      [] OTHER -> {}

TopRequiredFlags(sub) == IF sub = "new" THEN {} ELSE TopAllowedFlags(sub)

\* App::get_matches on the arguments after the binary name: [ok, sub, args];
\* sub is "" when no subcommand is given
get_matches(args) ==
    IF Len(args) = 0 THEN [ok |-> TRUE, sub |-> "", args |-> <<>>]
    ELSE IF Len(args[1]) # 1 \/ args[1][1] \notin TopSubcommands THEN NoMatches
    ELSE LET sub == args[1][1]
             fl == ParseFlags(Tail(args), TopAllowedFlags(sub))
         IN IF ~fl.ok \/ ~(TopRequiredFlags(sub) \subseteq DOMAIN fl.args) THEN NoMatches
            ELSE [ok |-> TRUE, sub |-> sub, args |-> fl.args]

\* std::env::args().any(|arg| arg == "import")
is_importing(args) == \E i \in 1..Len(args) : args[i] = <<"import">>

\* the first-run condition without the test of is_importing
first_run_ignores_import(importing, keystore_present, mnemonic_set) ==
    ~(keystore_present \/ mnemonic_set)

\* the first-run condition of run
first_run(importing, keystore_present, mnemonic_set) ==
    ~(importing \/ keystore_present \/ mnemonic_set)

\* the unlock loop with `break` taken whatever the engine answers
unlock_loop_breaks(accepted) == "parse"

\* where the unlock loop goes after set_stronghold_password answered
unlock_loop(accepted) == IF accepted THEN "parse" ELSE "unlock"

\* the exit code of the process when main returns after run
main_exit_code(result) == 0

\* -------------------------------------------------------------------- engine
AccountIds == {"acc1", "acc2"}
Absent == <<>>      \* the alias of an account id that is not in the registry

StoredPassword == "pw"
Passwords == {"pw", "bad"}

\* AccountManager::set_stronghold_password: a fresh keystore takes any password,
\* an existing one only the password it was written with
set_stronghold_password(pw, keystore_present) == ~keystore_present \/ pw = StoredPassword

registry(accts) == {i \in AccountIds : accts[i] # Absent}

\* AccountManager::get_account: the accounts with that alias
get_account(accts, alias) == {i \in registry(accts) : accts[i] = alias}

DefaultAlias == <<"Account">>

\* the subscriptions with on_new_transaction installed twice
EventKindsTwice == <<"balance_change", "new_transaction", "new_transaction", "reattachment">>

\* the four subscriptions of run, in the order they are installed
EventKinds == <<"balance_change", "new_transaction", "confirmation_state_change", "reattachment">>

\* -------------------------------------------------------------------- inputs
Word(w) == <<w>>
Hex64 == Rep("a", MessageIdLen)

ArgvInputs ==
    { <<>>,
      <<Word("account"), Word("--alias"), Word("a")>>,
      <<Word("account"), Word("--alias"), Word("import")>>,
      <<Word("new"), Word("--alias"), Word("b")>>,
      <<Word("new")>>,
      <<Word("delete"), Word("--alias"), Word("a")>>,
      <<Word("delete"), Word("--alias"), Word("import")>>,
      <<Word("sync")>>,
      <<Word("backup"), Word("--path"), Word("p")>>,
      <<Word("import"), Word("--path"), Word("p")>>,
      <<Word("mnemonic"), Word("--mnemonic"), Word("m")>>,
      <<Word("bogus")>> }

AccountsInputs ==
    { [i \in AccountIds |-> Absent],
      [i \in AccountIds |-> IF i = "acc1" THEN Word("a") ELSE Absent],
      [i \in AccountIds |-> IF i = "acc1" THEN Word("import") ELSE Absent],
      [i \in AccountIds |-> IF i = "acc1" THEN Word("a") ELSE Word("b")] }

Transfer(address, amount) ==
    Join(<<Word("transfer"), Word("--address"), address, Word("--amount"), amount>>)

WithId(sub, id) == Join(<<Word(sub), Word("--id"), id>>)

LineInputs ==
    { Word("h"), Word("clear"), Word("exit"), Word("bogus"),
      Word("exit") \o <<" ">>,
      Word("balance"), Word("address"), Word("list-addresses"), Word("list-messages"),
      WithId("list-messages", Hex64),
      WithId("list-messages", Rep("d", 8)),
      WithId("list-messages", Rep("a", MessageIdLen - 1) \o <<"g">>),
      Join(<<Word("list-messages"), Word("--type"), Word("sent")>>),
      Join(<<Word("list-messages"), Word("--type"), Word("other")>>),
      Word("sync"),
      Join(<<Word("sync"), Word("--gap"), <<"1", "0">> >>),
      Join(<<Word("sync"), Word("--gap"), <<"x">> >>),
      Word("sync") \o <<" ", " ">> \o Word("--gap") \o <<" ">> \o <<"1", "0">>,
      Word("sync") \o <<"\t">> \o Word("--gap") \o <<"\t">> \o <<"1", "0">>,
      Transfer(Word("atoi1qvalid"), <<"1", "0">>),
      Transfer(Word("atoi1qvalid"), <<"0">>),
      Transfer(Word("atoi1qvalid"), <<"+", "0", "0">>),
      Transfer(Word("atoi1qvalid"), <<"a">>),
      Transfer(Word("atoi1qvalid"), <<"1", "a">>),
      Transfer(Word("atoi1qvalid"), <<"-", "1">>),
      Transfer(Word("atoi1qvalid"), U64MaxDigits),
      Transfer(Word("atoi1qvalid"), Rep("9", 20)),
      Transfer(Word("nobech32"), <<"1", "0">>),
      Transfer(Word("nobech32"), <<"0">>),
      Join(<<Word("transfer"), Word("--amount"), <<"5">>, Word("--address"), Word("atoi1qvalid")>>),
      Join(<<Word("transfer"), Word("--amount"), <<"5">> >>),
      WithId("promote", Hex64), WithId("promote", Rep("a", MessageIdLen + 1)),
      WithId("retry", Hex64), WithId("retry", Rep("d", 8)),
      WithId("reattach", Hex64), WithId("reattach", Rep("g", MessageIdLen)),
      Join(<<Word("set-node"), Word("--node"), Word("http://node")>>),
      Join(<<Word("set-node"), Word("--node"), Word("nourl")>>),
      Join(<<Word("set-alias"), Word("--alias"), Word("b")>>) }

\* the lines typed in the runs that cover the whole session
SessionLines ==
    { Word("h"), Word("exit"), Word("bogus"), Word("balance"),
      Transfer(Word("atoi1qvalid"), <<"1", "0">>),
      Join(<<Word("set-alias"), Word("--alias"), Word("b")>>) }

EngInputs == [ok : BOOLEAN, some : BOOLEAN]

\* --------------------------------------------------------------------- state
VARIABLES
    argv,               \* the process arguments after the binary name
    keystore_file,      \* wallet.stronghold exists under the storage path
    accounts,           \* the engine's account registry: account id -> alias
    pc,                 \* where the main thread is in run / main
    subs,               \* the registered event subscriptions, in order
    password,           \* the password solicited last
    rejected,           \* the number of rejected passwords
    unlocked,           \* set_stronghold_password has succeeded
    matches,            \* the parsed process arguments
    set_mnemonic,       \* store_mnemonic_command stored a mnemonic
    random_mnemonics,   \* the calls of store_mnemonic(Stronghold, None)
    prompt,             \* the account prompt that is open: [id, ret]
    lines_read,         \* the lines read at account prompts
    picks,              \* the accounts chosen in the picker
    iter,               \* the last iteration of the account prompt, its handle's id
    out,                \* the lines the main thread printed in its last step
    calls,              \* the engine operations of the main thread's last step
    run_result,         \* "running", or what run returned: "ok", "err"
    exit_code,          \* the exit code of the process, -1 while it runs
    events,             \* the events delivered: [kind, account_id]
    worker,             \* the position of each event's worker thread
    entered,            \* the workers in the order they entered block_on
    shown,              \* the calls of Notification::show in order: [event, ok]
    fallbacks,          \* per event, the fallback lines printed
    runtime             \* the shared executor's mutex: [holder, poisoned]

mainvars ==
    <<argv, keystore_file, accounts, pc, subs, password, rejected,
      unlocked, matches, set_mnemonic, random_mnemonics, prompt, lines_read, picks,
      iter, out, calls, run_result, exit_code>>
bridgevars == <<events, worker, entered, shown, fallbacks, runtime>>
vars == <<mainvars, bridgevars>>

NoPrompt == [id |-> "", ret |-> ""]
NoIter ==
    [id |-> "", line |-> <<>>, alias |-> Absent, exit |-> FALSE, dispatched |-> FALSE,
     parsed |-> NoMatches, err |-> "", ran |-> 0, eng |-> [ok |-> TRUE, some |-> TRUE]]

InitMain(argvs) ==
    /\ argv \in argvs
    /\ keystore_file \in BOOLEAN
    /\ accounts \in AccountsInputs
    /\ pc = "build"
    /\ subs = <<>>
    /\ password = ""
    /\ rejected = 0
    /\ unlocked = FALSE
    /\ matches = NoMatches
    /\ set_mnemonic = FALSE
    /\ random_mnemonics = 0
    /\ prompt = NoPrompt
    /\ lines_read = 0
    /\ picks = 0
    /\ iter = NoIter
    /\ out = <<>>
    /\ calls = <<>>
    /\ run_result = "running"
    /\ exit_code = -1

InitBridge ==
    /\ events = <<>>
    /\ worker = <<>>
    /\ entered = <<>>
    /\ shown = <<>>
    /\ fallbacks = <<>>
    /\ runtime = [holder |-> 0, poisoned |-> FALSE]

Init == InitMain(ArgvInputs) /\ InitBridge

\* ------------------------------------------------------------ the main thread
PasswordPrompt == <<"What's the stronghold password?">>

\* get_password: the prompts shown; a confirmation when the storage path does
\* not exist, which the file system decides at the moment of the call
get_password(exists) ==
    IF exists THEN <<PasswordPrompt>> ELSE <<PasswordPrompt, <<"Confirm password">> >>

Alive == exit_code = -1

\* run: the engine handle is built (`?` returns its error)
run_build ==
    /\ Alive /\ pc = "build"
    /\ \E ok \in BOOLEAN :
         /\ pc' = IF ok THEN "listen" ELSE "returned"
         /\ run_result' = IF ok THEN run_result ELSE "err"
    /\ out' = <<>>
    /\ calls' = <<"AccountManager::builder">>
    /\ UNCHANGED <<argv, keystore_file, accounts, subs, password, rejected,
                   unlocked, matches, set_mnemonic, random_mnemonics, prompt, lines_read,
                   picks, iter, exit_code>>
    /\ UNCHANGED bridgevars

\* run: the four event subscriptions, in the order of the source
run_listen ==
    /\ Alive /\ pc = "listen"
    /\ subs' = Append(subs, EventKinds[Len(subs) + 1])
    /\ pc' = IF Len(subs') < Len(EventKinds) THEN "listen"
             ELSE IF is_importing(argv) THEN "parse" ELSE "unlock"
    /\ out' = <<>>
    /\ calls' = <<>>
    /\ UNCHANGED <<argv, keystore_file, accounts, password, rejected,
                   unlocked, matches, set_mnemonic, random_mnemonics, prompt, lines_read,
                   picks, iter, run_result, exit_code>>
    /\ UNCHANGED bridgevars

\* run: one round of the unlock loop
run_unlock ==
    /\ Alive /\ pc = "unlock"
    /\ \E pw \in Passwords, exists \in BOOLEAN :
         LET accepted == set_stronghold_password(pw, keystore_file)
         IN /\ accepted \/ rejected < MaxAttempts
            /\ password' = pw
            /\ unlocked' = accepted
            /\ rejected' = IF accepted THEN rejected ELSE rejected + 1
            /\ pc' = unlock_loop(accepted)
            /\ out' = get_password(exists)
                        \o (IF accepted THEN <<>> ELSE << <<"Wrong password. Try again.">> >>)
    /\ calls' = <<"set_stronghold_password">>
    /\ UNCHANGED <<argv, keystore_file, accounts, subs, matches,
                   set_mnemonic, random_mnemonics, prompt, lines_read, picks, iter,
                   run_result, exit_code>>
    /\ UNCHANGED bridgevars

\* run: the process arguments are parsed.  A rejected argument vector ends the
\* process inside get_matches.  Without arguments ArgRequiredElseHelp prints
\* the help and ends the process unless the grammar gives an argument a
\* default value, so both outcomes are possible.
run_parse ==
    /\ Alive /\ pc = "parse"
    /\ LET m == get_matches(argv)
       IN \E help \in BOOLEAN :
            /\ help => Len(argv) = 0
            /\ IF ~m.ok \/ help
               THEN /\ pc' = "exited"
                    /\ exit_code' = 2
                    /\ out' = << <<"USAGE">> >>
                    /\ UNCHANGED matches
               ELSE /\ pc' = "mnemonic"
                    /\ matches' = m
                    /\ out' = <<>>
                    /\ UNCHANGED exit_code
    /\ calls' = <<>>
    /\ UNCHANGED <<argv, keystore_file, accounts, subs, password, rejected,
                   unlocked, set_mnemonic, random_mnemonics, prompt, lines_read, picks,
                   iter, run_result>>
    /\ UNCHANGED bridgevars

\* store_mnemonic_command, and the `?` on its result in run
store_mnemonic_command ==
    /\ Alive /\ pc = "mnemonic"
    /\ IF matches.sub = "mnemonic"
       THEN \E ok \in BOOLEAN :
              /\ calls' = <<"store_mnemonic(Some)">>
              /\ set_mnemonic' = ok
              /\ keystore_file' = (keystore_file \/ ok)
              /\ pc' = IF ok THEN "first_run" ELSE "returned"
              /\ run_result' = IF ok THEN run_result ELSE "err"
       ELSE /\ calls' = <<>>
            /\ pc' = "first_run"
            /\ UNCHANGED <<set_mnemonic, keystore_file, run_result>>
    /\ out' = <<>>
    /\ UNCHANGED <<argv, accounts, subs, password, rejected, unlocked,
                   matches, random_mnemonics, prompt, lines_read, picks, iter, exit_code>>
    /\ UNCHANGED bridgevars

\* run: on the first run a random mnemonic is generated and stored
run_first_run ==
    /\ Alive /\ pc = "first_run"
    /\ IF first_run(is_importing(argv), keystore_file, set_mnemonic)
       THEN \E ok \in BOOLEAN :
              /\ calls' = <<"store_mnemonic(None)">>
              /\ random_mnemonics' = random_mnemonics + 1
              /\ keystore_file' = ok
              /\ pc' = IF ok THEN "interactive" ELSE "returned"
              /\ run_result' = IF ok THEN run_result ELSE "err"
       ELSE /\ calls' = <<>>
            /\ pc' = "interactive"
            /\ UNCHANGED <<random_mnemonics, keystore_file, run_result>>
    /\ out' = <<>>
    /\ UNCHANGED <<argv, accounts, subs, password, rejected, unlocked,
                   matches, set_mnemonic, prompt, lines_read, picks, iter, exit_code>>
    /\ UNCHANGED bridgevars

\* run_interactive without the `return Ok(())` after the only account's prompt
run_interactive_no_return ==
    /\ Alive /\ pc = "interactive"
    /\ IF Len(argv) = 0
       THEN \E ok \in BOOLEAN :
              /\ calls' = <<"get_accounts">>
              /\ IF ~ok THEN pc' = "returned" /\ run_result' = "err" /\ UNCHANGED prompt
                 ELSE IF Cardinality(registry(accounts)) = 0
                 THEN pc' = "select" /\ UNCHANGED <<run_result, prompt>>
                 ELSE IF Cardinality(registry(accounts)) = 1
                 THEN /\ pc' = "prompt"
                      /\ prompt' = [id |-> CHOOSE i \in registry(accounts) : TRUE,
                                    ret |-> "select"]
                      /\ UNCHANGED run_result
                 ELSE pc' = "pick" /\ UNCHANGED <<run_result, prompt>>
       ELSE /\ calls' = <<>>
            /\ pc' = "select"
            /\ UNCHANGED <<run_result, prompt>>
    /\ out' = <<>>
    /\ UNCHANGED <<argv, keystore_file, accounts, subs, password, rejected,
                   unlocked, matches, set_mnemonic, random_mnemonics, lines_read, picks,
                   iter, exit_code>>
    /\ UNCHANGED bridgevars

\* run: without arguments, the accounts are enumerated
run_interactive ==
    /\ Alive /\ pc = "interactive"
    /\ IF Len(argv) = 0
       THEN \E ok \in BOOLEAN :
              /\ calls' = <<"get_accounts">>
              /\ IF ~ok THEN pc' = "returned" /\ run_result' = "err" /\ UNCHANGED prompt
                 ELSE IF Cardinality(registry(accounts)) = 0
                 THEN pc' = "select" /\ UNCHANGED <<run_result, prompt>>
                 ELSE IF Cardinality(registry(accounts)) = 1
                 THEN /\ pc' = "prompt"
                      /\ prompt' = [id |-> CHOOSE i \in registry(accounts) : TRUE,
                                    ret |-> "returned"]
                      /\ UNCHANGED run_result
                 ELSE pc' = "pick" /\ UNCHANGED <<run_result, prompt>>
       ELSE /\ calls' = <<>>
            /\ pc' = "select"
            /\ UNCHANGED <<run_result, prompt>>
    /\ out' = <<>>
    /\ UNCHANGED <<argv, keystore_file, accounts, subs, password, rejected,
                   unlocked, matches, set_mnemonic, random_mnemonics, lines_read, picks,
                   iter, exit_code>>
    /\ UNCHANGED bridgevars

\* pick_account and the loop of run around it: an account is chosen, or the
\* picker is cancelled
pick_account ==
    /\ Alive /\ pc = "pick"
    /\ \/ /\ picks < MaxPicks
          /\ \E i \in registry(accounts) :
               prompt' = [id |-> i, ret |-> "pick"]
          /\ picks' = picks + 1
          /\ pc' = "prompt"
       \/ /\ pc' = "select"
          /\ UNCHANGED <<prompt, picks>>
    /\ out' = << <<"Select an account to manipulate">> >>
    /\ calls' = <<>>
    /\ UNCHANGED <<argv, keystore_file, accounts, subs, password, rejected,
                   unlocked, matches, set_mnemonic, random_mnemonics, lines_read, iter,
                   run_result, exit_code>>
    /\ UNCHANGED bridgevars

\* run returning after the selected account's prompt
select_account_command_returns ==
    /\ Alive /\ pc = "select"
    /\ IF matches.sub = "account"
       THEN /\ calls' = <<"get_account">>
            /\ IF get_account(accounts, value_of(matches, "alias")) # {}
               THEN /\ \E i \in get_account(accounts, value_of(matches, "alias")) :
                         prompt' = [id |-> i, ret |-> "returned"]
                    /\ pc' = "prompt"
                    /\ out' = <<>>
               ELSE /\ out' = << <<"Account not found">> >>
                    /\ pc' = "new"
                    /\ UNCHANGED prompt
       ELSE /\ calls' = <<>>
            /\ out' = <<>>
            /\ pc' = "new"
            /\ UNCHANGED prompt
    /\ UNCHANGED <<argv, keystore_file, accounts, subs, password, rejected,
                   unlocked, matches, set_mnemonic, random_mnemonics, lines_read, picks,
                   iter, run_result, exit_code>>
    /\ UNCHANGED bridgevars

\* select_account_command, and the match on its result in run
select_account_command ==
    /\ Alive /\ pc = "select"
    /\ IF matches.sub = "account"
       THEN /\ calls' = <<"get_account">>
            /\ IF get_account(accounts, value_of(matches, "alias")) # {}
               THEN /\ \E i \in get_account(accounts, value_of(matches, "alias")) :
                         prompt' = [id |-> i, ret |-> "new"]
                    /\ pc' = "prompt"
                    /\ out' = <<>>
               ELSE /\ out' = << <<"Account not found">> >>
                    /\ pc' = "new"
                    /\ UNCHANGED prompt
       ELSE /\ calls' = <<>>
            /\ out' = <<>>
            /\ pc' = "new"
            /\ UNCHANGED prompt
    /\ UNCHANGED <<argv, keystore_file, accounts, subs, password, rejected,
                   unlocked, matches, set_mnemonic, random_mnemonics, lines_read, picks,
                   iter, run_result, exit_code>>
    /\ UNCHANGED bridgevars

\* new_account_command, and the match on its result in run
new_account_command ==
    /\ Alive /\ pc = "new"
    /\ IF matches.sub = "new"
       THEN \E ok \in BOOLEAN :
              /\ ok => registry(accounts) # AccountIds
              /\ calls' = <<"create_account">>
              /\ IF ok
                 THEN LET id == CHOOSE i \in AccountIds : i \notin registry(accounts)
                          alias == IF value_of(matches, "alias") # None
                                   THEN value_of(matches, "alias") ELSE DefaultAlias
                      IN /\ accounts' = [accounts EXCEPT ![id] = alias]
                         /\ prompt' = [id |-> id, ret |-> "delete"]
                         /\ out' = << <<"Created account">> >>
                         /\ pc' = "prompt"
                         /\ UNCHANGED run_result
                 ELSE /\ pc' = "returned"
                      /\ run_result' = "err"
                      /\ out' = <<>>
                      /\ UNCHANGED <<accounts, prompt>>
       ELSE /\ calls' = <<>>
            /\ out' = <<>>
            /\ pc' = "delete"
            /\ UNCHANGED <<accounts, prompt, run_result>>
    /\ UNCHANGED <<argv, keystore_file, subs, password, rejected, unlocked,
                   matches, set_mnemonic, random_mnemonics, lines_read, picks, iter,
                   exit_code>>
    /\ UNCHANGED bridgevars

\* delete_account_command, and the `?` on its result in run
delete_account_command ==
    /\ Alive /\ pc = "delete"
    /\ IF matches.sub = "delete"
       THEN IF get_account(accounts, value_of(matches, "alias")) # {}
            THEN \E i \in get_account(accounts, value_of(matches, "alias")), ok \in BOOLEAN :
                   /\ calls' = <<"get_account", "remove_account">>
                   /\ accounts' = IF ok THEN [accounts EXCEPT ![i] = Absent] ELSE accounts
                   /\ out' = IF ok THEN << <<"Account removed">> >> ELSE <<>>
                   /\ pc' = IF ok THEN "sync" ELSE "returned"
                   /\ run_result' = IF ok THEN run_result ELSE "err"
            ELSE /\ calls' = <<"get_account">>
                 /\ out' = << <<"Account not found">> >>
                 /\ pc' = "sync"
                 /\ UNCHANGED <<accounts, run_result>>
       ELSE /\ calls' = <<>>
            /\ out' = <<>>
            /\ pc' = "sync"
            /\ UNCHANGED <<accounts, run_result>>
    /\ UNCHANGED <<argv, keystore_file, subs, password, rejected, unlocked,
                   matches, set_mnemonic, random_mnemonics, prompt, lines_read, picks,
                   iter, exit_code>>
    /\ UNCHANGED bridgevars

\* sync_accounts_command, and the `?` on its result in run
sync_accounts_command ==
    /\ Alive /\ pc = "sync"
    /\ IF matches.sub = "sync"
       THEN \E ok \in BOOLEAN :
              /\ calls' = <<"sync_accounts">>
              /\ out' = IF ok THEN << <<"Synchronized accounts">> >> ELSE <<>>
              /\ pc' = IF ok THEN "backup" ELSE "returned"
              /\ run_result' = IF ok THEN run_result ELSE "err"
       ELSE /\ calls' = <<>>
            /\ out' = <<>>
            /\ pc' = "backup"
            /\ UNCHANGED run_result
    /\ UNCHANGED <<argv, keystore_file, accounts, subs, password, rejected,
                   unlocked, matches, set_mnemonic, random_mnemonics, prompt, lines_read,
                   picks, iter, exit_code>>
    /\ UNCHANGED bridgevars

\* backup_command, and the `?` on its result in run
backup_command ==
    /\ Alive /\ pc = "backup"
    /\ IF matches.sub = "backup"
       THEN \E pw \in Passwords, exists \in BOOLEAN, ok \in BOOLEAN :
              /\ password' = pw
              /\ calls' = <<"backup">>
              /\ out' = get_password(exists)
                          \o (IF ok THEN << <<"Backup stored at">> >> ELSE <<>>)
              /\ pc' = IF ok THEN "import" ELSE "returned"
              /\ run_result' = IF ok THEN run_result ELSE "err"
       ELSE /\ calls' = <<>>
            /\ out' = <<>>
            /\ pc' = "import"
            /\ UNCHANGED <<password, run_result>>
    /\ UNCHANGED <<argv, keystore_file, accounts, subs, rejected, unlocked,
                   matches, set_mnemonic, random_mnemonics, prompt, lines_read, picks,
                   iter, exit_code>>
    /\ UNCHANGED bridgevars

\* the accounts of the backup that import_accounts restores
ImportedAccounts == [i \in AccountIds |-> IF i = "acc1" THEN <<"a">> ELSE Absent]

\* import_command, the `?` on its result, and the Ok(()) that ends run;
\* import_accounts succeeds only with the password the backup was written with
import_command ==
    /\ Alive /\ pc = "import"
    /\ IF matches.sub = "import"
       THEN \E pw \in Passwords, exists \in BOOLEAN, ok \in BOOLEAN :
              /\ ok => pw = StoredPassword
              /\ password' = pw
              /\ calls' = <<"import_accounts">>
              /\ out' = get_password(exists)
                          \o (IF ok THEN << <<"Backup successfully imported">> >> ELSE <<>>)
              /\ accounts' = IF ok THEN ImportedAccounts ELSE accounts
              /\ keystore_file' = (keystore_file \/ ok)
              /\ run_result' = IF ok THEN "ok" ELSE "err"
       ELSE /\ calls' = <<>>
            /\ out' = <<>>
            /\ run_result' = "ok"
            /\ UNCHANGED <<password, accounts, keystore_file>>
    /\ pc' = "returned"
    /\ UNCHANGED <<argv, subs, rejected, unlocked, matches, set_mnemonic,
                   random_mnemonics, prompt, lines_read, picks, iter, exit_code>>
    /\ UNCHANGED bridgevars

\* the loop of account_prompt leaving after any iteration
account_prompt_breaks(exit, ret) == ret

\* the loop of account_prompt: `break` when the iteration returned true
account_prompt_loop(exit, ret) == IF exit THEN ret ELSE "prompt"

\* account_prompt reading the alias once, before its loop
account_prompt_cached(lines) ==
    /\ Alive /\ pc = "prompt"
    /\ lines_read < MaxLines
    /\ \E command \in lines, eng \in EngInputs :
         \E alias \in {IF iter.id = prompt.id THEN iter.alias ELSE accounts[prompt.id]} :
         \E r \in {account_prompt_internal(command, alias, eng)} :
            /\ iter' = [id |-> prompt.id, line |-> command, alias |-> alias,
                        exit |-> r.exit,
                        dispatched |-> r.dispatched, parsed |-> r.parsed, err |-> r.err,
                        ran |-> r.ran, eng |-> eng]
            /\ accounts' = [accounts EXCEPT ![prompt.id] = r.alias]
            /\ out' = r.out
            /\ calls' = r.calls
            /\ pc' = account_prompt_loop(r.exit, prompt.ret)
            /\ prompt' = IF pc' = "prompt" THEN prompt ELSE NoPrompt
            /\ run_result' = IF pc' = "returned" THEN "ok" ELSE run_result
    /\ lines_read' = lines_read + 1
    /\ UNCHANGED <<argv, keystore_file, subs, password, rejected, unlocked,
                   matches, set_mnemonic, random_mnemonics, picks, exit_code>>
    /\ UNCHANGED bridgevars

\* account_prompt: one iteration of its loop; the loop ends when the iteration
\* returns true, and run goes on after the call
account_prompt(lines) ==
    /\ Alive /\ pc = "prompt"
    /\ lines_read < MaxLines
    /\ \E command \in lines, eng \in EngInputs :
         \E r \in {account_prompt_internal(command, accounts[prompt.id], eng)} :
            /\ iter' = [id |-> prompt.id, line |-> command, alias |-> accounts[prompt.id],
                        exit |-> r.exit,
                        dispatched |-> r.dispatched, parsed |-> r.parsed, err |-> r.err,
                        ran |-> r.ran, eng |-> eng]
            /\ accounts' = [accounts EXCEPT ![prompt.id] = r.alias]
            /\ out' = r.out
            /\ calls' = r.calls
            /\ pc' = account_prompt_loop(r.exit, prompt.ret)
            /\ prompt' = IF pc' = "prompt" THEN prompt ELSE NoPrompt
            /\ run_result' = IF pc' = "returned" THEN "ok" ELSE run_result
    /\ lines_read' = lines_read + 1
    /\ UNCHANGED <<argv, keystore_file, subs, password, rejected, unlocked,
                   matches, set_mnemonic, random_mnemonics, picks, exit_code>>
    /\ UNCHANGED bridgevars

\* main: run has returned; its error is printed, and the process ends
main ==
    /\ Alive /\ pc = "returned"
    /\ out' = IF run_result = "err" THEN <<print_error(EngineError)>> ELSE <<>>
    /\ exit_code' = main_exit_code(run_result)
    /\ pc' = "exited"
    /\ calls' = <<>>
    /\ UNCHANGED <<argv, keystore_file, accounts, subs, password, rejected,
                   unlocked, matches, set_mnemonic, random_mnemonics, prompt, lines_read,
                   picks, iter, run_result>>
    /\ UNCHANGED bridgevars

\* ------------------------------------------------------------ the event bridge
Registered(kind) == \E i \in 1..Len(subs) : subs[i] = kind

\* a handler closure that takes the executor's mutex itself before it spawns
spawn_worker_locked(kind, id) ==
    /\ runtime.holder = 0
    /\ events' = Append(events, [kind |-> kind, account_id |-> id])
    /\ worker' = Append(worker, "spawned")
    /\ fallbacks' = Append(fallbacks, 0)
    /\ UNCHANGED <<entered, shown, runtime>>

\* the handler closure of a subscription: the event's data is copied and a
\* detached worker thread is spawned for it
spawn_worker(kind, id) ==
    /\ events' = Append(events, [kind |-> kind, account_id |-> id])
    /\ worker' = Append(worker, "spawned")
    /\ fallbacks' = Append(fallbacks, 0)
    /\ UNCHANGED <<entered, shown, runtime>>

\* the engine delivers a balance change of a registered account
on_balance_change ==
    /\ Alive /\ Registered("balance_change")
    /\ Len(events) < MaxEvents
    /\ \E id \in registry(accounts) : spawn_worker("balance_change", id)
    /\ UNCHANGED mainvars

\* the engine delivers a message event of a registered account to one of the
\* three listeners the macro installs
message_listener ==
    /\ Alive
    /\ Len(events) < MaxEvents
    /\ \E kind \in {"new_transaction", "confirmation_state_change", "reattachment"},
          id \in registry(accounts) :
         /\ Registered(kind)
         /\ spawn_worker(kind, id)
    /\ UNCHANGED mainvars

Workers == 1..Len(worker)
InBlockOn == {"lookup", "notify", "fallback"}   \* inside block_on, the guard held

\* a lock that never waits
lock_always(rt) == TRUE

\* Mutex::lock returns once no other thread holds the guard
lock_free(rt) == rt.holder = 0

\* lock() taking the guard of a poisoned mutex as well
worker_lock_recovers(w) ==
    /\ Alive /\ worker[w] = "spawned"
    /\ lock_free(runtime)
    /\ worker' = [worker EXCEPT ![w] = "lookup"]
    /\ runtime' = [runtime EXCEPT !.holder = w]
    /\ entered' = Append(entered, w)
    /\ UNCHANGED <<events, shown, fallbacks>>
    /\ UNCHANGED mainvars

\* runtime_.lock().unwrap(): the guard is taken; a poisoned mutex panics the
\* worker, which drops the guard again
worker_lock(w) ==
    /\ Alive /\ worker[w] = "spawned"
    /\ lock_free(runtime)
    /\ IF runtime.poisoned
       THEN /\ worker' = [worker EXCEPT ![w] = "panicked"]
            /\ UNCHANGED <<runtime, entered>>
       ELSE /\ worker' = [worker EXCEPT ![w] = "lookup"]
            /\ runtime' = [runtime EXCEPT !.holder = w]
            /\ entered' = Append(entered, w)
    /\ UNCHANGED <<events, shown, fallbacks>>
    /\ UNCHANGED mainvars

\* accounts.read().await.get(&account_id).expect("account not found"): a
\* missing account panics the worker inside block_on, which poisons the mutex
worker_lookup(w) ==
    /\ Alive /\ worker[w] = "lookup"
    /\ IF events[w].account_id \in registry(accounts)
       THEN /\ worker' = [worker EXCEPT ![w] = "notify"]
            /\ UNCHANGED runtime
       ELSE /\ worker' = [worker EXCEPT ![w] = "panicked"]
            /\ runtime' = [holder |-> 0, poisoned |-> TRUE]
    /\ UNCHANGED <<events, entered, shown, fallbacks>>
    /\ UNCHANGED mainvars

\* Notification::show(): Ok ends the worker and drops the guard
worker_notify(w) ==
    /\ Alive /\ worker[w] = "notify"
    /\ \E ok \in BOOLEAN :
         /\ shown' = Append(shown, [event |-> w, ok |-> ok])
         /\ worker' = [worker EXCEPT ![w] = IF ok THEN "done" ELSE "fallback"]
         /\ runtime' = IF ok THEN [runtime EXCEPT !.holder = 0] ELSE runtime
    /\ UNCHANGED <<events, entered, fallbacks>>
    /\ UNCHANGED mainvars

\* Err(_) => println!(...): the fallback line, then the guard is dropped
worker_fallback(w) ==
    /\ Alive /\ worker[w] = "fallback"
    /\ fallbacks' = [fallbacks EXCEPT ![w] = @ + 1]
    /\ worker' = [worker EXCEPT ![w] = "done"]
    /\ runtime' = [runtime EXCEPT !.holder = 0]
    /\ UNCHANGED <<events, entered, shown>>
    /\ UNCHANGED mainvars

worker_step ==
    \E w \in Workers :
        worker_lock(w) \/ worker_lookup(w) \/ worker_notify(w) \/ worker_fallback(w)

NextMain ==
    \/ run_build \/ run_listen \/ run_unlock \/ run_parse \/ store_mnemonic_command
    \/ run_first_run \/ run_interactive \/ pick_account \/ select_account_command
    \/ new_account_command \/ delete_account_command \/ sync_accounts_command
    \/ backup_command \/ import_command \/ account_prompt(SessionLines) \/ main

Next == NextMain

Spec == Init /\ [][Next]_vars

\* The account prompt alone, on every line of LineInputs: one invocation that
\* opens the prompt of an existing account.
PromptArgv == { <<Word("account"), Word("--alias"), Word("a")>> }

InitPrompt ==
    /\ InitMain(PromptArgv)
    /\ accounts = [i \in AccountIds |-> IF i = "acc1" THEN Word("a") ELSE Absent]
    /\ InitBridge

NextPrompt ==
    \/ run_build \/ run_listen \/ run_unlock \/ run_parse \/ store_mnemonic_command
    \/ run_first_run \/ run_interactive \/ select_account_command
    \/ new_account_command \/ delete_account_command \/ sync_accounts_command
    \/ backup_command \/ import_command \/ account_prompt(LineInputs) \/ main

SpecPrompt == InitPrompt /\ [][NextPrompt]_vars

\* The event bridge beside a run that removes an account: the engine delivers
\* events while the main thread goes through run.
BridgeArgv ==
    { <<Word("delete"), Word("--alias"), Word("a")>>, <<Word("sync")>> }

InitEvents ==
    /\ InitMain(BridgeArgv)
    /\ accounts = [i \in AccountIds |-> IF i = "acc1" THEN Word("a") ELSE Absent]
    /\ ~keystore_file
    /\ InitBridge

NextBridge ==
    \/ run_build \/ run_listen \/ run_unlock \/ run_parse \/ store_mnemonic_command
    \/ run_first_run \/ run_interactive \/ select_account_command
    \/ new_account_command \/ delete_account_command \/ sync_accounts_command
    \/ backup_command \/ import_command \/ main
    \/ on_balance_change \/ message_listener \/ worker_step

SpecBridge == InitEvents /\ [][NextBridge]_vars

\* ==================================================================== claims
Range(f) == {f[i] : i \in DOMAIN f}

\* the steps of run after the unlock loop
LaterSteps ==
    {"parse", "mnemonic", "first_run", "interactive", "pick", "select", "prompt",
     "new", "delete", "sync", "backup", "import"}

\* C1: no account command is dispatched to the engine (account_commands called
\* from an account prompt) before set_stronghold_password has succeeded, unless
\* the top-level command being executed is `import`.
C1_NoDispatchBeforeUnlock ==
    iter.dispatched => (unlocked \/ matches.sub = "import")

\* C2: account_prompt returns only in an iteration whose line parses to the
\* `exit` command; after a parser error or an error returned by
\* account_commands the error is printed and the prompt is read again.
C2_PromptLeavesOnlyOnExit ==
    [][ (pc = "prompt" /\ lines_read' # lines_read) =>
          \E m \in {try_get_matches_from(split(iter'.line, " "))} :
          LET special == iter'.line \in {<<"h">>, <<"clear">>}
          IN /\ (pc' # "prompt") <=> (~special /\ m.ok /\ m.sub = "exit")
             /\ (~special /\ ~m.ok) =>
                  (pc' = "prompt" /\ prompt' = prompt /\ <<ParserError>> \in Range(out'))
             /\ (iter'.err # "") =>
                  (pc' = "prompt" /\ prompt' = prompt /\ print_error(iter'.err) \in Range(out'))
      ]_vars

C2_Witness ==
    pc = "prompt" /\ lines_read = MaxLines /\ iter.dispatched /\ iter.err = EngineError

TransferRead == iter.parsed.ok /\ iter.parsed.sub = "transfer"
BadAddress == ~AddressParse(value_of(iter.parsed, "address"))
NoNumber == ParseU64(value_of(iter.parsed, "amount")) = None
ZeroAmount == ParseU64(value_of(iter.parsed, "amount")) = <<>>

\* C4: a transfer whose amount is zero or is no unsigned integer, or whose
\* address is no bech32 string, never calls the engine's transfer; the command
\* returns its specific error, which is printed as `ERROR: ...`, and the prompt
\* goes on.
C4_BadTransferNotSent ==
    (TransferRead /\ (BadAddress \/ NoNumber \/ ZeroAmount)) =>
        /\ calls = <<>>
        /\ iter.err = (IF BadAddress THEN "Address must be a bech32 string"
                       ELSE IF NoNumber THEN "Amount must be a number"
                       ELSE "amount can't be zero")
        /\ out = <<print_error(iter.err)>>
        /\ pc = "prompt" /\ ~iter.exit

C4_Witness ==
    /\ TransferRead /\ ~BadAddress /\ ZeroAmount
    /\ value_of(iter.parsed, "amount") = <<"+", "0", "0">>
    /\ out = <<print_error("amount can't be zero")>>

\* the message id of the command read last, when it takes one
IdRead ==
    /\ iter.parsed.ok
    /\ iter.parsed.sub \in {"list-messages", "promote", "retry", "reattach"}
    /\ value_of(iter.parsed, "id") # None

\* C5: list-messages --id, promote, retry and reattach with an id that is not
\* 64 hexadecimal characters call no engine operation; the message about the
\* id is printed, the command succeeds and the prompt goes on.
C5_BadMessageIdNotSent ==
    (IdRead /\ ~MessageIdFromStr(value_of(iter.parsed, "id"))) =>
        /\ calls = <<>>
        /\ out = << <<BadMessageId>> >>
        /\ iter.err = ""
        /\ pc = "prompt" /\ ~iter.exit

C5_Witness ==
    /\ IdRead /\ iter.parsed.sub = "reattach"
    /\ Len(value_of(iter.parsed, "id")) = MessageIdLen
    /\ out = << <<BadMessageId>> >>

\* C6: at the first-run check a random mnemonic is generated and stored
\* exactly when the invocation is not the `import` command, wallet.stronghold
\* is absent and no `mnemonic` command was given.
C6_FirstRunExactly ==
    [][ (pc = "first_run" /\ pc' # "first_run") =>
          ((random_mnemonics' = random_mnemonics + 1) <=>
             (matches.sub # "import" /\ ~keystore_file /\ matches.sub # "mnemonic"))
      ]_vars

\* the calls of Notification::show for the event of worker w
Attempts(w) == Cardinality({i \in 1..Len(shown) : shown[i].event = w})
Failed(w) == \E i \in 1..Len(shown) : shown[i].event = w /\ ~shown[i].ok

\* C7: every delivered event gets exactly one notification attempt, and one
\* fallback line exactly when that attempt failed: a worker that has ended has
\* made one attempt, never none.
C7_ExactlyOneAttempt ==
    \A w \in Workers :
        worker[w] \in {"done", "panicked"} =>
            /\ Attempts(w) = 1
            /\ fallbacks[w] = (IF Failed(w) THEN 1 ELSE 0)

SameKind(v, w) == events[v].kind = events[w].kind

\* C8 as stated: of two events of one kind, the one delivered first is
\* notified first.
C8_DeliveryOrderKept ==
    \A i, j \in 1..Len(shown) :
        (i < j /\ SameKind(shown[i].event, shown[j].event)) => shown[i].event < shown[j].event

Position(seq, x) == CHOOSE i \in 1..Len(seq) : seq[i] = x

\* C8 as amended: the notification attempts happen in the order in which the
\* workers took the executor's mutex, whatever the order of delivery, and a
\* fallback line follows its attempt before any other attempt is made.
C8_LockOrderKept ==
    /\ \A i, j \in 1..Len(shown) :
         i < j => /\ shown[i].event \in Range(entered)
                  /\ shown[j].event \in Range(entered)
                  /\ Position(entered, shown[i].event) < Position(entered, shown[j].event)
    /\ \A w \in Workers :
         worker[w] = "fallback" => (Len(shown) > 0 /\ shown[Len(shown)].event = w)

C8_Witness ==
    \E i, j \in 1..Len(shown) :
        /\ i < j
        /\ SameKind(shown[i].event, shown[j].event)
        /\ shown[i].event > shown[j].event

\* C9: the exit code is 0 when run returns Ok and non-zero when run returns an
\* error, which is then also printed as `ERROR: <message>`.
C9_ExitCode ==
    (pc = "exited" /\ run_result # "running") =>
        /\ run_result = "ok" => exit_code = 0
        /\ run_result = "err" => (exit_code # 0 /\ out = <<print_error(EngineError)>>)

\* C10: at most one event worker is inside block_on, holding the runtime's
\* mutex, at any moment.
C10_OneWorkerInBlockOn ==
    Cardinality({w \in Workers : worker[w] \in InBlockOn}) <= 1

C10_Witness ==
    /\ \E w \in Workers : worker[w] \in InBlockOn
    /\ \E w \in Workers : worker[w] = "spawned"
    /\ \E v, w \in Workers : v # w /\ ~SameKind(v, w)

\* the engine has an event of an account of the registry to deliver
Deliverable == Alive /\ Len(events) < MaxEvents /\ registry(accounts) # {}

\* C11: the callback of a subscription never waits for the executor's mutex,
\* the account lookup or the notification: whenever the engine has an event to
\* deliver the callback can run, whatever the earlier workers are doing, and
\* its step only records the event's data and adds one spawned worker, leaving
\* the mutex, the notifications and every earlier worker as they are.
C11_CallbackNeverWaits ==
    /\ [](Deliverable =>
            /\ Registered("balance_change") => ENABLED on_balance_change
            /\ Registered("reattachment") => ENABLED message_listener)
    /\ [][ events' # events =>
             /\ Len(events') = Len(events) + 1
             /\ SubSeq(events', 1, Len(events)) = events
             /\ worker' = Append(worker, "spawned")
             /\ UNCHANGED <<runtime, entered, shown, mainvars>>
       ]_vars

C11_Witness ==
    /\ Len(events) > 0 /\ Deliverable
    /\ \E w \in Workers : worker[w] = "notify" /\ runtime.holder = w
    /\ ENABLED on_balance_change /\ ENABLED message_listener

\* C12: an iteration whose line is exactly `h` or `clear`, or whose line the
\* account grammar rejects, calls no engine operation, leaves every account
\* as it is and returns false: the same prompt stays open.
C12_QuietIterations ==
    [][ (pc = "prompt" /\ lines_read' # lines_read) =>
          \E m \in {try_get_matches_from(split(iter'.line, " "))} :
            (iter'.line \in {<<"h">>, <<"clear">>} \/ ~m.ok) =>
                /\ calls' = <<>>
                /\ accounts' = accounts
                /\ ~iter'.exit /\ ~iter'.dispatched
                /\ pc' = "prompt" /\ prompt' = prompt
      ]_vars

C12_Witness ==
    /\ pc = "prompt" /\ lines_read = MaxLines
    /\ iter.line = Word("sync") \o <<" ", " ">> \o Word("--gap") \o <<" ">> \o <<"1", "0">>
    /\ out = << <<ParserError>> >> /\ calls = <<>>
    /\ accounts[prompt.id] = <<"b">>

\* C13: an iteration whose line parses to `exit` calls no engine operation and
\* leaves every account as it is, and it ends the prompt; a prompt entered
\* again on the same account handle shows the alias the prompt showed when it
\* was left.
C13_ExitLeavesSession ==
    /\ [][ (pc = "prompt" /\ lines_read' # lines_read /\ iter'.exit) =>
             /\ calls' = <<>>
             /\ accounts' = accounts
             /\ pc' = prompt.ret
       ]_vars
    /\ []((pc = "prompt" /\ iter.exit /\ prompt.id = iter.id) =>
            accounts[prompt.id] = iter.alias)

C13_Witness ==
    /\ pc = "prompt" /\ iter.exit /\ prompt.id = iter.id
    /\ picks = 2 /\ lines_read = MaxLines
    /\ accounts["acc1"] = accounts["acc2"]

\* a run without arguments, and the number of its accounts
NoArgs == Len(argv) = 0
NumAccounts == Cardinality(registry(accounts))
AfterSelection == {"select", "new", "delete", "sync", "backup", "import"}

CommandCall ==
    [account |-> "get_account", new |-> "create_account", delete |-> "remove_account",
     sync |-> "sync_accounts", backup |-> "backup", import |-> "import_accounts"]
CommandStep ==
    [account |-> "select", new |-> "new", delete |-> "delete",
     sync |-> "sync", backup |-> "backup", import |-> "import"]
StepAfter ==
    [select |-> "new", new |-> "delete", delete |-> "sync", sync |-> "backup",
     backup |-> "import", import |-> "returned"]

\* C15: with arguments present run goes through select, new, delete, sync,
\* backup and import in this order, each command's engine operation called
\* only at its own step.  A prompt is opened only by select, exactly when the
\* command is `account` and its alias resolves, and by new, exactly when the
\* command is `new` and the creation succeeds; the selected account's prompt
\* returns to the new step, the new account's prompt to the delete step, and
\* delete, sync, backup and import open no prompt.
C15_CommandOrder ==
    [][ ~NoArgs =>
          /\ \A c \in DOMAIN CommandCall \ {"account"} :
                CommandCall[c] \in Range(calls') =>
                    (pc = CommandStep[c] /\ matches.sub = c)
          /\ "get_account" \in Range(calls') =>
                (pc = CommandStep[matches.sub] /\ matches.sub \in {"account", "delete"})
          /\ pc \in DOMAIN StepAfter =>
                pc' \in {StepAfter[pc], "prompt", "returned"}
          /\ (pc \in DOMAIN StepAfter /\ pc' = "returned" /\ pc # "import") =>
                run_result' = "err"
          /\ (pc' = "prompt" /\ pc # "prompt") =>
                /\ pc \in {"select", "new"}
                /\ prompt'.ret = StepAfter[pc]
                /\ prompt'.id \in registry(accounts')
          /\ pc = "select" =>
                ((pc' = "prompt") <=>
                    (matches.sub = "account"
                     /\ get_account(accounts, value_of(matches, "alias")) # {}))
          /\ (pc = "select" /\ pc' = "prompt") =>
                prompt'.id \in get_account(accounts, value_of(matches, "alias"))
          /\ pc = "new" =>
                /\ (pc' = "prompt") <=> (matches.sub = "new" /\ run_result' # "err")
                /\ pc' = "prompt" => prompt'.id \notin registry(accounts)
          /\ (pc = "prompt" /\ pc' # "prompt") => (iter'.exit /\ pc' = prompt.ret)
      ]_vars

C15_Witness ==
    /\ ~NoArgs /\ matches.sub = "account"
    /\ pc = "exited" /\ run_result = "ok" /\ iter.exit /\ iter.id = "acc1"
    /\ lines_read = MaxLines

\* the invocation is the `import` command
ImportCommand == get_matches(argv).ok /\ get_matches(argv).sub = "import"

Count(seq, x) == Cardinality({i \in 1..Len(seq) : seq[i] = x})

\* C16: in a run of the `import` command the unlock loop is skipped and
\* set_stronghold_password is never called; the password is solicited once,
\* in the step of import_command, which calls import_accounts with it; no
\* random mnemonic is generated; run then returns Ok exactly when the import
\* succeeded, with `Backup successfully imported` printed.
C16_ImportSkipsUnlock ==
    [][ ImportCommand =>
          /\ pc' # "unlock" /\ ~unlocked'
          /\ "set_stronghold_password" \notin Range(calls')
          /\ random_mnemonics' = 0
          /\ "store_mnemonic(None)" \notin Range(calls')
          /\ PasswordPrompt \in Range(out') => pc = "import"
          /\ pc = "import" =>
                /\ Count(out', PasswordPrompt) = 1
                /\ calls' = <<"import_accounts">>
                /\ pc' = "returned"
                /\ IF out'[Len(out')] = <<"Backup successfully imported">>
                   THEN run_result' = "ok" /\ password' = StoredPassword
                   ELSE run_result' = "err" /\ accounts' = accounts
      ]_vars

C16_Witness ==
    /\ ImportCommand /\ pc = "returned" /\ run_result = "ok"
    /\ ~unlocked /\ rejected = 0 /\ random_mnemonics = 0
    /\ out = <<PasswordPrompt, <<"Confirm password">>, <<"Backup successfully imported">> >>

\* C17: no subscription is registered twice and none is ever removed; a
\* subscription is registered only in the listening step of run, which
\* follows the building of the engine handle, before any password is
\* solicited and before any line is read at an account prompt; whenever a
\* password is solicited, arguments are parsed or a prompt is open, all four
\* are registered, and they still are when the process has ended (a run whose
\* engine handle cannot be built registers none).
C17_SubscriptionsOnce ==
    /\ [](\A i, j \in 1..Len(subs) : subs[i] = subs[j] => i = j)
    /\ [](pc \in LaterSteps \cup {"unlock"} => Range(subs) = Range(EventKinds))
    /\ [](pc \in {"returned", "exited"} =>
            \/ Range(subs) = Range(EventKinds)
            \/ subs = <<>> /\ run_result = "err" /\ password = "" /\ lines_read = 0)
    /\ [][ /\ subs' # subs =>
                /\ pc = "listen"
                /\ Len(subs') = Len(subs) + 1 /\ SubSeq(subs', 1, Len(subs)) = subs
                /\ password = "" /\ lines_read = 0 /\ prompt = NoPrompt
           /\ (PasswordPrompt \in Range(out') \/ lines_read' # lines_read) =>
                (subs' = subs /\ Range(subs) = Range(EventKinds))
       ]_vars

C17_Witness ==
    /\ pc = "exited" /\ Range(subs) = Range(EventKinds) /\ Len(subs) = 4
    /\ rejected = MaxAttempts /\ lines_read = MaxLines

\* the `sync` command read last, and its gap value
SyncRead == iter.parsed.ok /\ iter.parsed.sub = "sync"
BadGap == value_of(iter.parsed, "gap") # None /\ ParseU64(value_of(iter.parsed, "gap")) = None

\* C18: a `sync` whose gap is no unsigned integer calls no engine operation,
\* neither account_handle.sync() nor execute; `Gap limit must be a number` is
\* printed as an error and the prompt goes on.
C18_BadGapNotSent ==
    (SyncRead /\ BadGap) =>
        /\ calls = <<>>
        /\ iter.err = "Gap limit must be a number"
        /\ out = <<print_error(iter.err)>>
        /\ pc = "prompt" /\ ~iter.exit

Whitespace == {" ", "\t"}

RECURSIVE TokensFrom(_, _, _)
TokensFrom(s, start, i) ==  \* the non-empty runs of non-blank atoms of s
    LET piece == IF i > start THEN <<SubSeq(s, start, i - 1)>> ELSE <<>>
    IN IF i > Len(s) THEN piece
       ELSE IF s[i] \in Whitespace THEN piece \o TokensFrom(s, i + 1, i + 1)
       ELSE TokensFrom(s, start, i + 1)

\* a line tokenized on whitespace: runs of blanks separate, no empty token
split_whitespace(s) == TokensFrom(s, 1, 1)

\* C19: for every line other than `h` and `clear`, what the account grammar
\* made of the line is what it makes of the line tokenized on whitespace, so
\* the amount of whitespace between two words makes no difference.
C19_WhitespaceTokens ==
    (lines_read > 0 /\ iter.line \notin {<<"h">>, <<"clear">>}) =>
        iter.parsed = try_get_matches_from(split_whitespace(iter.line))

\* a step of the main thread beside the event bridge
MainStep ==
    \/ run_build \/ run_listen \/ run_unlock \/ run_parse \/ store_mnemonic_command
    \/ run_first_run \/ run_interactive \/ select_account_command
    \/ new_account_command \/ delete_account_command \/ sync_accounts_command
    \/ backup_command \/ import_command \/ main

\* C20: a worker whose account lookup fails panics inside block_on and leaves
\* the mutex poisoned and free; a poisoned mutex stays poisoned; while it is
\* poisoned no worker enters block_on, no notification is attempted and no
\* fallback line is printed: a worker that takes its turn panics at the lock;
\* and the main thread goes on with its own steps.
C20_PoisonedMutex ==
    /\ [][ /\ \A w \in Workers :
                (worker[w] = "lookup" /\ worker'[w] = "panicked") =>
                    /\ events[w].account_id \notin registry(accounts)
                    /\ runtime'.poisoned /\ runtime'.holder = 0
           /\ runtime.poisoned =>
                /\ runtime' = runtime
                /\ UNCHANGED <<entered, shown, fallbacks>>
                /\ \A w \in Workers :
                     worker'[w] # worker[w] =>
                        (worker[w] = "spawned" /\ worker'[w] = "panicked")
       ]_vars
    /\ []((runtime.poisoned /\ Alive) => ENABLED MainStep)

C20_Witness ==
    /\ runtime.poisoned /\ Alive /\ pc = "returned"
    /\ Len(worker) = 2 /\ worker[1] = "panicked" /\ worker[2] = "panicked"
    /\ ~SameKind(1, 2)
    /\ shown = <<>>

\* the iteration was a `set-alias` that the engine accepted
SetAliasDone(it) == it.dispatched /\ it.parsed.sub = "set-alias" /\ it.err = ""

\* C21: the alias an iteration shows is the alias of the account handle at
\* that moment: after an accepted `set-alias X` the next prompt of the account
\* shows X, and after a failed `set-alias` or any other line it shows the
\* alias the prompt showed before; the account's alias changes in no other
\* iteration.
C21_AliasReRead ==
    [][ (pc = "prompt" /\ lines_read' # lines_read) =>
          /\ iter'.alias = accounts[prompt.id]
          /\ iter.id = prompt.id =>
                iter'.alias = (IF SetAliasDone(iter) THEN value_of(iter.parsed, "alias")
                               ELSE iter.alias)
          /\ accounts'[prompt.id] =
                (IF SetAliasDone(iter') THEN value_of(iter'.parsed, "alias")
                 ELSE accounts[prompt.id])
      ]_vars

C21_Witness ==
    /\ pc = "prompt" /\ lines_read = MaxLines
    /\ iter.alias = <<"b">> /\ iter.parsed.sub = "balance"
    /\ accounts[prompt.id] = <<"b">>

\* the place of each command's handler in account_commands, and the engine
\* operations of each command
HandlerIndex ==
    [x \in AccountSubcommands \ {"exit"} |->
        CASE x = "list-messages" -> 1 [] x = "list-addresses" -> 2 [] x = "sync" -> 3
          [] x = "address" -> 4 [] x = "balance" -> 5 [] x = "transfer" -> 6
          [] x = "promote" -> 7 [] x = "retry" -> 8 [] x = "reattach" -> 9
          [] x = "set-node" -> 10 [] x = "set-alias" -> 11]
CommandOps ==
    [x \in AccountSubcommands \ {"exit"} |->
        CASE x = "list-messages" -> {"get_message", "list_messages"}
          [] x = "list-addresses" -> {"addresses"}
          [] x = "sync" -> {"sync", "execute"}
          [] x = "address" -> {"generate_address"}
          [] x = "set-node" -> {"set_client_options"}
          [] x = "set-alias" -> {"set_alias"}
          [] OTHER -> {x}]

\* C22 as stated: every dispatched command runs all eleven handlers.
C22_AllHandlersRun ==
    iter.dispatched => iter.ran = NumHandlers

\* C22 as amended: a dispatched command runs the handlers in their fixed
\* order up to the first that returns an error, all eleven when none does;
\* only the handler of the matched subcommand calls the engine, and its error
\* is the last line printed in the step that read the line; an iteration that
\* dispatches nothing runs no handler and calls nothing.
C22_OneCommandPerIteration ==
    IF iter.dispatched
    THEN /\ iter.parsed.ok /\ iter.parsed.sub # "exit"
         /\ iter.ran = (IF iter.err = "" THEN NumHandlers ELSE HandlerIndex[iter.parsed.sub])
         /\ Range(calls) \subseteq CommandOps[iter.parsed.sub]
         /\ iter.err # "" => (Len(out) > 0 /\ out[Len(out)] = print_error(iter.err))
         /\ iter.err = "" => \A i \in 1..Len(out) : out[i][1] # "ERROR: "
    ELSE iter.ran = 0 /\ (lines_read > 0 /\ pc = "prompt" => calls = <<>>)

C22_Witness ==
    /\ iter.dispatched /\ iter.parsed.sub = "sync" /\ iter.err = EngineError
    /\ iter.ran = 3 /\ calls = <<"sync", "execute">>
    /\ pc = "prompt"

====
